---- MODULE Spec2Model ----
(***************************************************************************)
(* Update tracker (src/custom/custom.c): a watcher that polls one status   *)
(* file, re-reads it when its modification time changes, extracts the      *)
(* fields progress / status / step with a narrow scanner and hands the     *)
(* result to the screen's widgets.  Texts are sequences of one-character   *)
(* strings, so that the scanner, atoi and the %d formatting are modelled   *)
(* character by character.                                                 *)
(***************************************************************************)
EXTENDS Integers, Sequences, FiniteSets, TLC

VARIABLES
    build,              \* "zephyr" | "posix" | "sim": the three preprocessor configurations
    started,            \* custom_init has run
    fileExists,         \* stat / fs_stat of UPDATE_JSON_PATH succeeds
    fileTime,           \* st_mtime of the status file (meaningful when fileExists)
    fileContent,        \* bytes of the status file
    fileReadable,       \* fopen(path, "rb") / fs_open(FS_O_READ) succeeds
    canCreate,          \* the file system lets the process create and write the file
    parentDirExists,    \* the directory that holds UPDATE_JSON_PATH exists
    shortWrites,        \* fwrite / fs_write may store fewer bytes than it is handed
    tmpDirExists,       \* the relative directory "tmp" that write_file_contents creates
    last_modified_time, \* static int64_t last_modified_time
    update_timer,       \* static lv_timer_t *update_timer: NULL or its period
    current_status,     \* static update_status_t current_status
    last_log_time,      \* static int64_t last_log_time of check_update_status
    now,                \* the clock read by check_update_status, in ms
    update_phase,       \* static int update_phase of simulate_update_cycle
    sim_timer,          \* the simulator's timer has been created
    ui,                 \* which widget handles of lv_ui are non-NULL
    labels,             \* what the widgets show
    tick,               \* record of what the last handler run did (observation only)
    simTicks,           \* how many times simulate_update_cycle has run (observation only)
    hist,               \* history of reads (observation only): see NoHist
    px                  \* inputs and result of a direct call of a file / parsing function

vars == <<build, started, fileExists, fileTime, fileContent, fileReadable, canCreate,
          parentDirExists, shortWrites, tmpDirExists, last_modified_time, update_timer,
          current_status, last_log_time, now, update_phase, sim_timer, ui, labels, tick,
          simTicks, hist, px>>

----------------------------------------------------------------------------
(* Bounds of the model *)

\* file modification times are 1..MaxTime
MaxTime == 2

\* the simulator's ticks are followed up to this many
MaxSimTicks == 9

\* time(NULL) * 1000 when the program starts
EpochMs == 20000

\* the clock is followed for this many ms after the start
MaxClock == 25000

\* a timer handle: NULL, or the timer lv_timer_create made, with its period
NULL == [null |-> TRUE]

Timer(period) == [null |-> FALSE, period |-> period]

(* Program constants *)
JSON_BUFFER_SIZE == 512

DEFAULT_UPDATE_INTERVAL == 2000

num_phases == 8

(* Key names and texts of the program *)
K_progress == <<"p","r","o","g","r","e","s","s">>

K_status == <<"s","t","a","t","u","s">>

K_step == <<"s","t","e","p">>

T_SystemReady == <<"S","y","s","t","e","m"," ","R","e","a","d","y">>

T_WaitingForUpdate == <<"W","a","i","t","i","n","g"," ","f","o","r"," ","u","p","d","a","t","e">>

T_SystemUpdating == <<"S","y","s","t","e","m"," ","U","p","d","a","t","i","n","g",".",".",".">>

update_steps ==
    << <<"P","r","e","p","a","r","i","n","g"," ","f","o","r"," ","u","p","d","a","t","e">>,
       <<"D","o","w","n","l","o","a","d","i","n","g"," ","p","a","c","k","a","g","e","s">>,
       <<"V","e","r","i","f","y","i","n","g"," ","d","o","w","n","l","o","a","d">>,
       <<"I","n","s","t","a","l","l","i","n","g"," ","u","p","d","a","t","e","s">>,
       <<"C","o","n","f","i","g","u","r","i","n","g"," ","s","y","s","t","e","m">>,
       <<"F","i","n","a","l","i","z","i","n","g"," ","i","n","s","t","a","l","l","a","t","i","o","n">>,
       <<"C","l","e","a","n","i","n","g"," ","u","p">>,
       <<"U","p","d","a","t","e"," ","c","o","m","p","l","e","t","e",".">> >>

\* variant: the step text of the file differs from the one of current_status
default_json_otherstep ==
    <<"{","\n"," "," "," "," ","\"","p","r","o","g","r","e","s","s","\"",":"," ","0",",","\n">>
    \o <<" "," "," "," ","\"","s","t","a","t","u","s","\"",":"," ","\"","S","y","s","t","e","m"," ","R","e","a","d","y","\"",",","\n">>
    \o <<" "," "," "," ","\"","s","t","e","p","\"",":"," ","\"","W","a","i","t","i","n","g"," ","f","o","r"," ","u","p","d","a","t","e","s","\"","\n","}","\n">>

default_json ==
    <<"{","\n"," "," "," "," ","\"","p","r","o","g","r","e","s","s","\"",":"," ","0",",","\n">>
    \o <<" "," "," "," ","\"","s","t","a","t","u","s","\"",":"," ","\"","S","y","s","t","e","m"," ","R","e","a","d","y","\"",",","\n">>
    \o <<" "," "," "," ","\"","s","t","e","p","\"",":"," ","\"","W","a","i","t","i","n","g"," ","f","o","r"," ","u","p","d","a","t","e","\"","\n","}","\n">>

----------------------------------------------------------------------------
(* C library functions used by the program, on character sequences *)

Min(a, b) == IF a <= b THEN a ELSE b

Prefix(s, n) == SubSeq(s, 1, Min(n, Len(s)))

\* s[i], or the terminating NUL (written "") past the end of the C string
CharAt(s, i) == IF i >= 1 /\ i <= Len(s) THEN s[i] ELSE ""

\* strstr(s + from - 1, pat): index of the first occurrence at or after `from`, 0 if none
RECURSIVE strstr(_, _, _)
strstr(s, pat, from) ==
    IF from + Len(pat) - 1 > Len(s) THEN 0
    ELSE IF \A j \in 1..Len(pat) : s[from + j - 1] = pat[j] THEN from
    ELSE strstr(s, pat, from + 1)

\* strchr(s + from - 1, c): index of the first c at or after `from`, 0 if none
RECURSIVE strchr(_, _, _)
strchr(s, c, from) ==
    IF from > Len(s) THEN 0
    ELSE IF s[from] = c THEN from
    ELSE strchr(s, c, from + 1)

Digits == <<"0","1","2","3","4","5","6","7","8","9">>

IsDigit(c) == \E d \in 1..10 : Digits[d] = c

DigitVal(c) == (CHOOSE d \in 1..10 : Digits[d] = c) - 1

\* isspace() in the C locale (the vertical tab has no TLA+ spelling and is in no text here)
IsSpace(c) == c \in {" ", "\t", "\n", "\r", "\f"}

RECURSIVE SkipSpace(_, _)
SkipSpace(s, i) == IF IsSpace(CharAt(s, i)) THEN SkipSpace(s, i + 1) ELSE i

RECURSIVE AtoiDigits(_, _, _)
AtoiDigits(s, i, acc) ==
    IF IsDigit(CharAt(s, i)) THEN AtoiDigits(s, i + 1, acc * 10 + DigitVal(s[i])) ELSE acc

\* atoi(s): leading white space, an optional sign, then digits up to the first
\* other character; 0 when there is no digit
atoi(s) ==
    LET i == SkipSpace(s, 1)
    IN  IF CharAt(s, i) = "-" THEN 0 - AtoiDigits(s, i + 1, 0)
        ELSE IF CharAt(s, i) = "+" THEN AtoiDigits(s, i + 1, 0)
        ELSE AtoiDigits(s, i, 0)

RECURSIVE NatToStr(_)
NatToStr(n) ==
    IF n < 10 THEN <<Digits[n + 1]>> ELSE NatToStr(n \div 10) \o <<Digits[(n % 10) + 1]>>

\* the %d conversion of snprintf
IntToStr(n) == IF n < 0 THEN <<"-">> \o NatToStr(0 - n) ELSE NatToStr(n)

----------------------------------------------------------------------------
(* Field Extractor *)

\* the white space parse_json_value skips after the colon
IsJsonSpace(c) == c \in {" ", "\t", "\n", "\r"}

\* variant: the tab is not skipped after the colon
RECURSIVE SkipJsonSpace_notab(_, _)
SkipJsonSpace_notab(s, i) ==
    IF CharAt(s, i) \in {" ", "\n", "\r"} THEN SkipJsonSpace_notab(s, i + 1) ELSE i

RECURSIVE SkipJsonSpace(_, _)
SkipJsonSpace(s, i) == IF IsJsonSpace(CharAt(s, i)) THEN SkipJsonSpace(s, i + 1) ELSE i

\* variant: the closing brace does not end a bare token
RECURSIVE TokenEnd_nobrace(_, _)
TokenEnd_nobrace(s, i) ==
    IF i > Len(s) \/ s[i] \in {",", " ", "\t", "\n", "\r"} THEN i
    ELSE TokenEnd_nobrace(s, i + 1)

\* end of a bare token: the first of , } space tab LF CR or the end of the string
RECURSIVE TokenEnd(_, _)
TokenEnd(s, i) ==
    IF i > Len(s) \/ s[i] \in {",", "}", " ", "\t", "\n", "\r"} THEN i ELSE TokenEnd(s, i + 1)

\* variant: a value that does not fit is cut to max_len characters
CopyValue_offbyone(s, first, last, max_len) ==
    LET len == last - first
        n   == IF len >= max_len THEN max_len ELSE len
    IN  SubSeq(s, first, first + n - 1)

\* memcpy(value, value_start, len); value[len] = '\0' with len cut to max_len - 1
CopyValue(s, first, last, max_len) ==
    LET len == last - first
        n   == IF len >= max_len THEN max_len - 1 ELSE len
    IN  SubSeq(s, first, first + n - 1)

parse_json_value(json, key, max_len) ==
    LET search_key == Prefix(<<"\"">> \o key \o <<"\"">>, 63)
        key_pos == strstr(json, search_key, 1)
        colon == IF key_pos = 0 THEN 0 ELSE strchr(json, ":", key_pos + Len(search_key))
        value_start == SkipJsonSpace(json, colon + 1)
        fail == [ok |-> FALSE, value |-> <<>>]
    IN  IF key_pos = 0 THEN fail
        ELSE IF colon = 0 THEN fail
        ELSE IF CharAt(json, value_start) = "\""
        THEN LET value_end == strchr(json, "\"", value_start + 1)
             IN  IF value_end = 0 THEN fail
                 ELSE [ok |-> TRUE,
                       value |-> CopyValue(json, value_start + 1, value_end, max_len)]
        ELSE [ok |-> TRUE,
              value |-> CopyValue(json, value_start, TokenEnd(json, value_start), max_len)]

----------------------------------------------------------------------------
(* What the external update agent may write into the status file *)

W_full == <<"{","\"","p","r","o","g","r","e","s","s","\"",":"," ","4","2",","," ","\"","s","t","a","t","u","s","\"",":"," ","\"","B","u","s","y","\"",","," ","\"","s","t","e","p","\"",":"," ","\"","C","o","p","y","\"","}">>

W_nostep == <<"{","\"","s","t","a","t","u","s","\"",":","\"","D","o","n","e","\"",",","\"","p","r","o","g","r","e","s","s","\"",":","7","}">>

W_badprogress == <<"{","\"","p","r","o","g","r","e","s","s","\"",":"," ","x","9",","," ","\"","s","t","e","p","\"",":"," ","\"","H","a","l","t","\"","}">>

W_unterminated == <<"{","\"","s","t","e","p","\"",":"," ","\"","L","a","t","e","\"",","," ","\"","s","t","a","t","u","s","\"",":"," ","\"","B","u","s","y">>

W_nocolon == <<"{","\"","s","t","e","p","\""," ","\"","C","o","p","y","\"","}">>

W_empty == <<>>

AgentPayloads == {W_full, W_nostep, W_badprogress, W_unterminated, W_nocolon, W_empty}

T_Initializing == <<"I","n","i","t","i","a","l","i","z","i","n","g"," ","u","p","d","a","t","e">>

----------------------------------------------------------------------------
(* File Access Adapter *)

\* the status file as the adapter sees it
File == [exists |-> fileExists, time |-> fileTime, content |-> fileContent,
         readable |-> fileReadable]

NoFile == [exists |-> FALSE, time |-> 0, content |-> <<>>, readable |-> FALSE]

get_file_timestamp(f) == IF ~f.exists THEN 0 ELSE f.time

\* [ok, buffer]: the buffer holds the first max_size - 1 bytes; the POSIX branch
\* reports a read of zero bytes as a failure, the Zephyr branch does not.  The medium
\* is taken to work: once the file is open, fs_read / fread deliver its bytes.
read_file_contents(f, max_size) ==
    IF ~(f.exists /\ f.readable) THEN [ok |-> FALSE, buffer |-> <<>>]
    ELSE LET buffer == Prefix(f.content, max_size - 1)
         IN  IF build = "zephyr" THEN [ok |-> TRUE, buffer |-> buffer]
             ELSE [ok |-> Len(buffer) > 0, buffer |-> buffer]

\* fopen(path, "wb") / fs_open(FS_O_CREATE | FS_O_WRITE) succeeds: neither of them
\* creates a missing directory
CanOpenForWrite == canCreate /\ parentDirExists

\* [ret, file, tmpdir, opens, opened]: n is the number of bytes the file system
\* accepts (n = Len(content) unless the write is cut short), t the modification time
\* the write leaves, opens the number of attempts to open the file, opened whether one
\* of them worked.
\* Zephyr: one fs_open without truncation, the result of fs_write is not looked at.
\* POSIX: fopen "wb"; when it fails, mkdir("tmp") (a directory of that name in the
\* working directory) and one more fopen of the same path.
write_file_contents(f, content, n, t) ==
    IF build = "zephyr"
    THEN IF ~CanOpenForWrite
         THEN [ret |-> FALSE, file |-> f, tmpdir |-> tmpDirExists,
               opens |-> 1, opened |-> FALSE]
         ELSE [ret |-> TRUE,
               file |-> [exists |-> TRUE, time |-> t,
                         content |-> Prefix(content, n)
                                     \o SubSeq(f.content, n + 1, Len(f.content)),
                         readable |-> IF f.exists THEN f.readable ELSE TRUE],
               tmpdir |-> tmpDirExists, opens |-> 1, opened |-> TRUE]
    ELSE IF ~CanOpenForWrite
         THEN [ret |-> FALSE, file |-> f, tmpdir |-> TRUE, opens |-> 2, opened |-> FALSE]
         ELSE [ret |-> n = Len(content),
               file |-> [exists |-> TRUE, time |-> t, content |-> Prefix(content, n),
                         readable |-> IF f.exists THEN f.readable ELSE TRUE],
               tmpdir |-> tmpDirExists, opens |-> 1, opened |-> TRUE]

\* a poll tick that could see the file while a write is under way
WriteLens_midway(content) == {Len(content), 0, Len(content) \div 2}

\* how many bytes a write of `content` may get through: all of them, or none or half
\* where the medium cuts writes short
WriteLens(content) ==
    IF shortWrites THEN {Len(content), 0, Len(content) \div 2} ELSE {Len(content)}

----------------------------------------------------------------------------
(* Status Store and Poll Controller *)

DefaultStatus == [progress |-> 0, status |-> T_SystemReady, step |-> T_WaitingForUpdate]

\* the widgets as setup_scr_screen leaves them
InitialLabels == [status |-> T_SystemUpdating, step |-> T_Initializing,
                  progress |-> <<"1","0","0","%">>, bar |-> 50]

Widgets == {"screen_status", "screen_step", "screen_progress", "screen_loading_bar"}

\* lv_bar_set_value keeps the value in the range lv_bar_set_range(bar, 0, 100) set
BarValue(v) == IF v < 0 THEN 0 ELSE IF v > 100 THEN 100 ELSE v

\* variant: the new Status starts from the defaults, not from current_status
ParseStatus_fresh(buffer, old) ==
    LET p  == parse_json_value(buffer, K_progress, 32)
        st == parse_json_value(buffer, K_status, 64)
        sp == parse_json_value(buffer, K_step, 64)
    IN  [progress |-> IF p.ok THEN atoi(p.value) ELSE 0,
         status   |-> IF st.ok THEN st.value ELSE T_SystemReady,
         step     |-> IF sp.ok THEN sp.value ELSE T_WaitingForUpdate]

\* the new Status: a copy of current_status with every extracted field written over
ParseStatus(buffer, old) ==
    LET p  == parse_json_value(buffer, K_progress, 32)
        st == parse_json_value(buffer, K_status, 64)
        sp == parse_json_value(buffer, K_step, 64)
    IN  [progress |-> IF p.ok THEN atoi(p.value) ELSE old.progress,
         status   |-> IF st.ok THEN st.value ELSE old.status,
         step     |-> IF sp.ok THEN sp.value ELSE old.step]

\* variant: one absent widget handle makes the whole update be skipped
ShowStatus_allornothing(status) ==
    IF ui # Widgets THEN labels
    ELSE [status   |-> status.status,
          step     |-> status.step,
          progress |-> Prefix(IntToStr(status.progress) \o <<"%">>, 7),
          bar      |-> BarValue(status.progress)]

\* the widget updates of lines 318-334; percentage[8] holds 7 characters
ShowStatus(status) ==
    [status   |-> IF "screen_status" \in ui THEN status.status ELSE labels.status,
     step     |-> IF "screen_step" \in ui THEN status.step ELSE labels.step,
     progress |-> IF "screen_progress" \in ui
                  THEN Prefix(IntToStr(status.progress) \o <<"%">>, 7)
                  ELSE labels.progress,
     bar      |-> IF "screen_loading_bar" \in ui THEN BarValue(status.progress)
                  ELSE labels.bar]

\* what a run of check_update_status leaves behind when it changes nothing; emits are
\* the widgets written, emitted the Status handed to lines 317-338 (none: <<>>)
Quiet(lmt) ==
    [last_modified_time |-> lmt, current_status |-> current_status,
     last_log_time |-> last_log_time, labels |-> labels,
     reads |-> 0, readOk |-> FALSE, stores |-> 0, emits |-> {}, emitted |-> <<>>,
     waitLog |-> FALSE, outcome |-> "none", buffer |-> <<>>]

\* variant: a vanished file makes the watcher forget the time it had seen
AbsentResult_forget(lmt) ==
    [Quiet(0) EXCEPT !.outcome = "absent"]

\* variant: the waiting message is printed on every tick that finds no file
AbsentResult_everytick(lmt) ==
    [Quiet(lmt) EXCEPT !.waitLog = TRUE, !.last_log_time = now, !.outcome = "absent"]

\* file absent: the waiting message at most every 10 s, nothing else
AbsentResult(lmt) ==
    IF now - last_log_time > 10000
    THEN [Quiet(lmt) EXCEPT !.waitLog = TRUE, !.last_log_time = now, !.outcome = "absent"]
    ELSE [Quiet(lmt) EXCEPT !.outcome = "absent"]

\* variant: the comparison with last_modified_time left out
FileChanged_always(file_time, lmt) == TRUE

\* a watcher that takes only a later timestamp for a change
FileChanged_newer(file_time, lmt) == file_time > lmt

\* if (file_time != last_modified_time)
FileChanged(file_time, lmt) == file_time # lmt

\* variant: an unchanged file makes the watcher forget the time it had recorded
UnchangedResult_clear(lmt) == [Quiet(0) EXCEPT !.outcome = "unchanged"]

\* else branch of the comparison: return, nothing read
UnchangedResult(lmt) == [Quiet(lmt) EXCEPT !.outcome = "unchanged"]

\* variant: last_modified_time recorded only after a successful read
ReadFailResult_late(file_time) ==
    [Quiet(last_modified_time) EXCEPT !.reads = 1, !.outcome = "readfail"]

\* variant: the return after the failed read left out, the stale buffer parsed
ReadFailResult_fallthrough(file_time) ==
    [Quiet(file_time) EXCEPT !.reads = 1, !.stores = 1, !.emits = ui,
                             !.emitted = <<current_status>>,
                             !.labels = ShowStatus(current_status),
                             !.outcome = "readfail"]

\* the read failed; last_modified_time already holds file_time
ReadFailResult(file_time) ==
    [Quiet(file_time) EXCEPT !.reads = 1, !.outcome = "readfail"]

\* variant: the modification time is not recorded when the file is parsed
ParsedResult_notime(file_time, buffer) ==
    LET status == ParseStatus(buffer, current_status)
    IN  [Quiet(last_modified_time) EXCEPT
            !.reads = 1, !.readOk = TRUE, !.current_status = status, !.stores = 1,
            !.labels = ShowStatus(status), !.emits = ui, !.emitted = <<status>>,
            !.outcome = "parsed", !.buffer = buffer]

\* the read succeeded: parse, replace current_status, update the widgets
ParsedResult(file_time, buffer) ==
    LET status == ParseStatus(buffer, current_status)
    IN  [Quiet(file_time) EXCEPT
            !.reads = 1, !.readOk = TRUE, !.current_status = status, !.stores = 1,
            !.labels = ShowStatus(status), !.emits = ui, !.emitted = <<status>>,
            !.outcome = "parsed", !.buffer = buffer]

\* one run of check_update_status on file f with last_modified_time = lmt
check_update_status(f, lmt) ==
    LET file_time == get_file_timestamp(f)
    IN  IF file_time = 0 THEN AbsentResult(lmt)
        ELSE IF ~FileChanged(file_time, lmt) THEN UnchangedResult(lmt)
        ELSE LET rd == read_file_contents(f, JSON_BUFFER_SIZE)
             IN  IF ~rd.ok THEN ReadFailResult(file_time)
                 ELSE ParsedResult(file_time, rd.buffer)

----------------------------------------------------------------------------
(* Bootstrap and Simulator Generator *)

\* variant: the defaults are written whether or not the file is there
ensure_update_json_exists_always(f, n, t) ==
    LET w == write_file_contents(f, default_json, n, t)
    IN  [file |-> w.file, tmpdir |-> w.tmpdir, wrote |-> IF w.ret THEN "ok" ELSE "fail"]

\* [file, tmpdir, wrote]: wrote is "none" when the file was there, else what
\* write_file_contents returned
ensure_update_json_exists(f, n, t) ==
    IF get_file_timestamp(f) # 0
    THEN [file |-> f, tmpdir |-> tmpDirExists, wrote |-> "none"]
    ELSE LET w == write_file_contents(f, default_json, n, t)
         IN  [file |-> w.file, tmpdir |-> w.tmpdir,
              wrote |-> IF w.ret THEN "ok" ELSE "fail"]

\* progress of phase `phase`
PhaseProgress(phase) ==
    LET progress == (phase * 100) \div num_phases
    IN  IF progress > 100 THEN 100 ELSE progress

\* the snprintf of simulate_update_cycle into json_content[512]
SimulatorJson(phase) ==
    Prefix(<<"{","\n"," "," "," "," ","\"","p","r","o","g","r","e","s","s","\"",":"," ">> \o IntToStr(PhaseProgress(phase)) \o <<",","\n">>
           \o <<" "," "," "," ","\"","s","t","a","t","u","s","\"",":"," ","\"","S","y","s","t","e","m"," ","U","p","d","a","t","i","n","g",".",".",".","\"",",","\n"," "," "," "," ","\"","s","t","e","p","\"",":"," ","\"">> \o update_steps[phase + 1] \o <<"\"","\n","}","\n">>, 511)

\* variant: the wrap comes one phase early
NextPhase_early(phase) == IF phase + 1 >= num_phases - 1 THEN 0 ELSE phase + 1

NextPhase(phase) == IF phase + 1 >= num_phases THEN 0 ELSE phase + 1

----------------------------------------------------------------------------
(* The state machine *)

NoCall == [fn |-> "none"]

NoTick == [op |-> "none", outcome |-> "none", reads |-> 0, readOk |-> FALSE, stores |-> 0,
           emits |-> {}, emitted |-> <<>>, waitLog |-> FALSE, wrote |-> "none",
           blob |-> <<>>]

TickOf(op, r, wrote, blob) ==
    [op |-> op, outcome |-> r.outcome, reads |-> r.reads, readOk |-> r.readOk,
     stores |-> r.stores, emits |-> r.emits, emitted |-> r.emitted,
     waitLog |-> r.waitLog, wrote |-> wrote, blob |-> blob]

\* the clock when the program starts: a short uptime on Zephyr, the epoch time elsewhere
StartClock(b) == IF b = "zephyr" THEN 0 ELSE EpochMs

\* failedAt: the modification time at which the last read failed, 0 once the file
\* has shown another modification time or has been read; lastGood: the buffer of the
\* most recent successful read; logs: the clock readings at which the waiting
\* message was printed
NoHist == [failedAt |-> 0, lastGood |-> <<>>, logs |-> <<>>]

HistAfterCheck(h, r, file_time) ==
    IF r.outcome = "readfail" THEN [h EXCEPT !.failedAt = file_time]
    ELSE IF r.outcome = "parsed"
    THEN [failedAt |-> 0, lastGood |-> r.buffer, logs |-> h.logs]
    ELSE IF r.waitLog THEN [h EXCEPT !.logs = Append(@, now)]
    ELSE h

HistAfterWrite(h, new_time) ==
    IF new_time # 0 /\ new_time # h.failedAt THEN [h EXCEPT !.failedAt = 0] ELSE h

\* the state before custom_init; uis are the sets of widget handles that may be non-NULL
InitWith(builds, uis) ==
    /\ build \in builds
    /\ started = FALSE
    /\ fileExists = FALSE /\ fileTime = 0 /\ fileContent = <<>> /\ fileReadable = FALSE
    /\ canCreate \in BOOLEAN
    /\ parentDirExists = TRUE
    /\ shortWrites = TRUE
    /\ tmpDirExists = FALSE
    /\ last_modified_time = 0
    /\ update_timer = NULL
    /\ current_status = DefaultStatus
    /\ last_log_time = 0
    /\ now = StartClock(build)
    /\ update_phase = 0
    /\ sim_timer = FALSE
    /\ ui \in uis
    /\ labels = InitialLabels
    /\ tick = NoTick
    /\ simTicks = 0
    /\ hist = NoHist
    /\ px = NoCall

\* setup_scr_screen has created every widget
InitOf(builds) == InitWith(builds, {Widgets})

SetFile(f) ==
    /\ fileExists' = f.exists /\ fileTime' = f.time
    /\ fileContent' = f.content /\ fileReadable' = f.readable

ApplyCheck(r) ==
    /\ last_modified_time' = r.last_modified_time
    /\ current_status' = r.current_status
    /\ last_log_time' = r.last_log_time
    /\ labels' = r.labels

\* custom_init: create the poll timer, bootstrap the file, force and run the first
\* check, and in the simulator build create the simulator's timer
custom_init ==
    /\ ~started
    /\ \E n \in WriteLens(default_json), t \in 1..MaxTime :
          LET boot == ensure_update_json_exists(File, n, t)
              r    == check_update_status(boot.file, 0)
          IN  /\ SetFile(boot.file)
              /\ tmpDirExists' = boot.tmpdir
              /\ ApplyCheck(r)
              /\ hist' = HistAfterCheck(hist, r, get_file_timestamp(boot.file))
              /\ tick' = TickOf("init", r, boot.wrote, <<>>)
    /\ started' = TRUE
    /\ update_timer' = Timer(DEFAULT_UPDATE_INTERVAL)
    /\ sim_timer' = (build = "sim")
    /\ UNCHANGED <<build, parentDirExists, shortWrites, canCreate, now, update_phase, ui, simTicks, px>>

\* variant: a failed read deletes the poll timer
update_tracker_task_stop ==
    /\ update_timer # NULL
    /\ LET r == check_update_status(File, last_modified_time)
       IN  /\ ApplyCheck(r)
           /\ hist' = HistAfterCheck(hist, r, get_file_timestamp(File))
           /\ tick' = TickOf("poll", r, "none", <<>>)
           /\ update_timer' = IF r.outcome = "readfail" THEN NULL ELSE update_timer
    /\ UNCHANGED <<build, parentDirExists, shortWrites, started, fileExists, fileTime, fileContent,
                   fileReadable, canCreate, tmpDirExists, now, update_phase, sim_timer,
                   ui, simTicks, px>>

\* update_tracker_task: the poll timer's callback
update_tracker_task ==
    /\ update_timer # NULL
    /\ LET r == check_update_status(File, last_modified_time)
       IN  /\ ApplyCheck(r)
           /\ hist' = HistAfterCheck(hist, r, get_file_timestamp(File))
           /\ tick' = TickOf("poll", r, "none", <<>>)
    /\ UNCHANGED <<build, parentDirExists, shortWrites, started, fileExists, fileTime, fileContent, fileReadable,
                   canCreate, tmpDirExists, update_timer, now, update_phase, sim_timer,
                   ui, simTicks, px>>

Intervals == {500}

\* variant: the test for a NULL timer left out, so that the call makes a timer
set_update_polling_interval_create ==
    /\ \E interval_ms \in Intervals : update_timer' = Timer(interval_ms)
    /\ tick' = [NoTick EXCEPT !.op = "setint"]
    /\ UNCHANGED <<build, parentDirExists, shortWrites, started, fileExists, fileTime, fileContent, fileReadable,
                   canCreate, tmpDirExists, last_modified_time, current_status,
                   last_log_time, now, update_phase, sim_timer, ui, labels, simTicks, hist, px>>

set_update_polling_interval ==
    /\ \E interval_ms \in Intervals :
          update_timer' = IF update_timer # NULL THEN Timer(interval_ms) ELSE update_timer
    /\ tick' = [NoTick EXCEPT !.op = "setint"]
    /\ UNCHANGED <<build, parentDirExists, shortWrites, started, fileExists, fileTime, fileContent, fileReadable,
                   canCreate, tmpDirExists, last_modified_time, current_status,
                   last_log_time, now, update_phase, sim_timer, ui, labels, simTicks, hist, px>>

\* variant: the phase moves on only when the write went through
simulate_update_cycle_onlyok ==
    /\ sim_timer
    /\ simTicks < MaxSimTicks
    /\ LET json_content == SimulatorJson(update_phase)
       IN  \E n \in WriteLens(json_content), t \in 1..MaxTime :
              LET w == write_file_contents(File, json_content, n, t)
              IN  /\ SetFile(w.file)
                  /\ tmpDirExists' = w.tmpdir
                  /\ hist' = HistAfterWrite(hist, get_file_timestamp(w.file))
                  /\ tick' = [NoTick EXCEPT !.op = "sim", !.blob = json_content,
                                            !.wrote = IF w.ret THEN "ok" ELSE "fail"]
                  /\ update_phase' = IF w.ret THEN NextPhase(update_phase)
                                      ELSE update_phase
    /\ simTicks' = simTicks + 1
    /\ UNCHANGED <<build, parentDirExists, shortWrites, started, canCreate, last_modified_time,
                   update_timer, current_status, last_log_time, now, sim_timer, ui,
                   labels, px>>

\* simulate_update_cycle: the simulator timer's callback (simulator build only)
simulate_update_cycle ==
    /\ sim_timer
    /\ simTicks < MaxSimTicks
    /\ LET json_content == SimulatorJson(update_phase)
       IN  \E n \in WriteLens(json_content), t \in 1..MaxTime :
              LET w == write_file_contents(File, json_content, n, t)
              IN  /\ SetFile(w.file)
                  /\ tmpDirExists' = w.tmpdir
                  /\ hist' = HistAfterWrite(hist, get_file_timestamp(w.file))
                  /\ tick' = [NoTick EXCEPT !.op = "sim", !.blob = json_content,
                                            !.wrote = IF w.ret THEN "ok" ELSE "fail"]
    /\ update_phase' = NextPhase(update_phase)
    /\ simTicks' = simTicks + 1
    /\ UNCHANGED <<build, parentDirExists, shortWrites, started, canCreate, last_modified_time, update_timer,
                   current_status, last_log_time, now, sim_timer, ui, labels, px>>

----------------------------------------------------------------------------
(* The environment: the update agent and the file system *)

\* the agent replaces the file's content; the modification time it leaves may be
\* any, also the one the file had (st_mtime counts whole seconds)
AgentWriteOf(payloads) ==
    /\ \E c \in payloads, t \in 1..MaxTime :
          SetFile([exists |-> TRUE, time |-> t, content |-> c,
                   readable |-> IF fileExists THEN fileReadable ELSE TRUE])
    /\ hist' = HistAfterWrite(hist, fileTime')
    /\ tick' = NoTick
    /\ UNCHANGED <<build, parentDirExists, shortWrites, started, canCreate, tmpDirExists, last_modified_time,
                   update_timer, current_status, last_log_time, now, update_phase,
                   sim_timer, ui, labels, simTicks, px>>

AgentWrite == AgentWriteOf(AgentPayloads)

AgentRemove ==
    /\ fileExists
    /\ SetFile(NoFile)
    /\ tick' = NoTick
    /\ UNCHANGED <<build, parentDirExists, shortWrites, started, canCreate, tmpDirExists, last_modified_time,
                   update_timer, current_status, last_log_time, now, update_phase,
                   sim_timer, ui, labels, simTicks, hist, px>>

\* the file's permissions change: opening it for reading starts or stops to work
SetReadable ==
    /\ fileExists
    /\ fileReadable' = ~fileReadable
    /\ tick' = NoTick
    /\ UNCHANGED <<build, parentDirExists, shortWrites, started, fileExists, fileTime, fileContent, canCreate,
                   tmpDirExists, last_modified_time, update_timer, current_status,
                   last_log_time, now, update_phase, sim_timer, ui, labels, simTicks, hist, px>>

----------------------------------------------------------------------------
(* Specifications *)

\* the watcher on a target (Zephyr or Linux) with an external update agent
Init == InitOf({"zephyr", "posix"})

Next ==
    \/ custom_init
    \/ update_tracker_task
    \/ set_update_polling_interval
    \/ AgentWrite
    \/ AgentRemove
    \/ SetReadable

Spec == Init /\ [][Next]_vars

\* the simulator build: bootstrap and the Simulator Generator are the only writers
InitSim == InitOf({"sim"})

NextSim ==
    \/ custom_init
    \/ update_tracker_task
    \/ simulate_update_cycle

SpecSim == InitSim /\ [][NextSim]_vars

----------------------------------------------------------------------------
(* Properties of the poll tick *)

\* the timestamp a poll tick starting in this state gets
TickFileTime == get_file_timestamp(File)

\* the buffer a read in this state fills
TickBuffer == read_file_contents(File, JSON_BUFFER_SIZE).buffer

\* C1: a poll tick that finds a non-zero timestamp equal to last_modified_time
\* reads nothing and leaves current_status and last_modified_time as they are.
C1_UnchangedFileNotRead ==
    [][(update_tracker_task /\ TickFileTime # 0 /\ TickFileTime = last_modified_time)
        => /\ tick'.reads = 0
           /\ current_status' = current_status
           /\ last_modified_time' = last_modified_time]_vars

\* a poll tick has just skipped a file whose content is not what the store holds
C1_Witness ==
    /\ tick.op = "poll" /\ tick.outcome = "unchanged"
    /\ TickFileTime # 0 /\ TickFileTime = last_modified_time
    /\ fileReadable /\ fileContent = W_full /\ current_status.progress # 42

\* C2: a poll tick that finds a non-zero timestamp other than last_modified_time
\* records it whether or not the read works; when the read fails current_status keeps
\* its value; and no later tick reads the file while it still shows the timestamp
\* at which the read failed.
C2_FailedReadNotRepeated ==
    [][update_tracker_task =>
        /\ (TickFileTime # 0 /\ TickFileTime # last_modified_time)
              => last_modified_time' = TickFileTime
        /\ tick'.outcome = "readfail"
              => (tick'.reads = 1 /\ current_status' = current_status)
        /\ (hist.failedAt # 0 /\ TickFileTime = hist.failedAt)
              => tick'.reads = 0]_vars

\* after a failed read, a later poll tick has left the now readable file alone
C2_Witness ==
    /\ tick.op = "poll" /\ tick.outcome = "unchanged"
    /\ hist.failedAt # 0 /\ TickFileTime = hist.failedAt
    /\ fileReadable /\ fileContent = W_full
    /\ current_status = DefaultStatus

FieldKept(key, old, new) ==
    IF key = K_progress THEN new.progress = old.progress
    ELSE IF key = K_status THEN new.status = old.status
    ELSE new.step = old.step

FieldTaken(key, value, new) ==
    IF key = K_progress THEN new.progress = atoi(value)
    ELSE IF key = K_status THEN new.status = value
    ELSE new.step = value

FieldSize(key) == IF key = K_progress THEN 32 ELSE 64

Keys == {K_progress, K_status, K_step}

\* the quoted key occurs nowhere in the text
LacksKey(text, key) == strstr(text, <<"\"">> \o key \o <<"\"">>, 1) = 0

\* C3: after a successful read, each of progress, status and step on its own keeps its
\* previous value when its extraction fails and takes the extracted value when it
\* succeeds; and when the payload read before had the key and this one lacks it,
\* the field still holds the value of the payload read before.
C3_FieldsIndependent ==
    [][(update_tracker_task /\ tick'.outcome = "parsed") =>
        \A key \in Keys :
            LET e    == parse_json_value(TickBuffer, key, FieldSize(key))
                prev == parse_json_value(hist.lastGood, key, FieldSize(key))
            IN  /\ ~e.ok => FieldKept(key, current_status, current_status')
                /\ e.ok => FieldTaken(key, e.value, current_status')
                /\ (LacksKey(TickBuffer, key) /\ prev.ok)
                      => FieldTaken(key, prev.value, current_status')]_vars

\* W_full then W_nostep have been read: step is W_full's, the rest W_nostep's
C3_Witness ==
    /\ tick.op = "poll" /\ tick.outcome = "parsed"
    /\ hist.lastGood = W_nostep
    /\ current_status = [progress |-> 7, status |-> <<"D","o","n","e">>,
                          step |-> <<"C","o","p","y">>]

\* C4: a poll tick that gets the timestamp 0 reads nothing and leaves current_status
\* and last_modified_time as they are, however many such ticks follow each other.
C4_AbsentFileNoChange ==
    [][(update_tracker_task /\ TickFileTime = 0)
        => /\ tick'.reads = 0 /\ tick'.outcome = "absent"
           /\ current_status' = current_status
           /\ last_modified_time' = last_modified_time]_vars

\* a poll tick has found the file gone, after it had been read at an earlier time
C4_Witness ==
    /\ tick.op = "poll" /\ tick.outcome = "absent"
    /\ ~fileExists
    /\ last_modified_time # 0 /\ current_status # DefaultStatus

\* C5: a run of check_update_status, from the poll timer or from custom_init, makes
\* no read and no replacement of current_status, or one read and at most one
\* replacement; a replacement needs the read of the same tick to have succeeded, and
\* without a replacement current_status is unchanged.
C5_OneReadPerTick ==
    [][(update_tracker_task \/ custom_init) =>
        /\ \/ tick'.reads = 0 /\ tick'.stores = 0
           \/ tick'.reads = 1 /\ tick'.stores \in {0, 1}
        /\ tick'.stores = 1 => tick'.readOk
        /\ tick'.reads = 0 => ~tick'.readOk
        /\ tick'.stores = 0 => current_status' = current_status]_vars

\* a poll tick has read the file and replaced current_status
C5_Witness ==
    /\ tick.op = "poll" /\ tick.reads = 1 /\ tick.stores = 1
    /\ current_status # DefaultStatus

----------------------------------------------------------------------------
(* Properties of startup *)

\* C6: until custom_init runs last_modified_time is 0; when custom_init leaves a file
\* that is present and can be opened, its check has read the file whatever its
\* timestamp, last_modified_time is that timestamp, and current_status is the default
\* Status with every field that the file's content yields written over.
C6_FirstPollAlwaysReads ==
    /\ [](~started => last_modified_time = 0 /\ current_status = DefaultStatus)
    /\ [][(custom_init /\ fileExists' /\ fileReadable') =>
            /\ tick'.reads = 1
            /\ last_modified_time' = fileTime'
            /\ \A key \in Keys :
                  LET e == parse_json_value(Prefix(fileContent', JSON_BUFFER_SIZE - 1),
                                            key, FieldSize(key))
                  IN  /\ e.ok => FieldTaken(key, e.value, current_status')
                      /\ ~e.ok => FieldKept(key, DefaultStatus, current_status')]_vars

\* custom_init found the agent's file, with the later of the timestamps, and took it over
C6_Witness ==
    /\ tick.op = "init" /\ tick.wrote = "none" /\ tick.reads = 1
    /\ fileContent = W_nostep /\ fileTime = MaxTime /\ last_modified_time = MaxTime
    /\ current_status = [progress |-> 7, status |-> <<"D","o","n","e">>,
                          step |-> T_WaitingForUpdate]

\* C7: when custom_init finds no file and its bootstrap write goes through (the
\* function returns true and the file holds all of default_json), the file exists,
\* the extractor gets 0, "System Ready" and "Waiting for update" out of it, and that
\* is current_status after the first check.
C7_BootstrapRoundTrip ==
    [][(custom_init /\ ~fileExists /\ tick'.wrote = "ok" /\ fileContent' = default_json) =>
        /\ fileExists' /\ fileTime' # 0
        /\ LET p  == parse_json_value(fileContent', K_progress, 32)
               st == parse_json_value(fileContent', K_status, 64)
               sp == parse_json_value(fileContent', K_step, 64)
           IN  /\ p.ok /\ p.value = <<"0">> /\ atoi(p.value) = 0
               /\ st.ok /\ st.value = T_SystemReady
               /\ sp.ok /\ sp.value = T_WaitingForUpdate
        /\ tick'.outcome = "parsed"
        /\ current_status' = [progress |-> 0, status |-> T_SystemReady,
                               step |-> T_WaitingForUpdate]]_vars

\* custom_init has created the file and parsed it
C7_Witness ==
    /\ tick.op = "init" /\ tick.wrote = "ok" /\ tick.outcome = "parsed"
    /\ fileExists /\ fileContent = default_json /\ last_modified_time = fileTime
    /\ current_status = DefaultStatus

----------------------------------------------------------------------------
(* Properties of the Simulator Generator *)

\* floor(k * 100 / 8) for k = 0..7
ExpectedProgress == <<0, 12, 25, 37, 50, 62, 75, 87>>

\* C8: counting from phase 0, the k-th simulator tick (k = 0..7, then again from 0)
\* formats a blob whose progress is floor(k*100/8), whose status is
\* "System Updating..." and whose step is the k-th label, and a write that goes
\* through leaves exactly that blob in the file; update_phase stays in 0..7 and is 0
\* again after every 8 ticks.
C8_SimulatorCycle ==
    /\ [](update_phase \in 0..7 /\ update_phase = simTicks % 8)
    /\ [][simulate_update_cycle =>
            LET k    == simTicks % 8
                blob == tick'.blob
                p    == parse_json_value(blob, K_progress, 32)
                st   == parse_json_value(blob, K_status, 64)
                sp   == parse_json_value(blob, K_step, 64)
            IN  /\ p.ok /\ atoi(p.value) = ExpectedProgress[k + 1]
                /\ p.value = IntToStr(ExpectedProgress[k + 1])
                /\ st.ok /\ st.value = T_SystemUpdating
                /\ sp.ok /\ sp.value = update_steps[k + 1]
                /\ tick'.wrote = "ok" => (fileExists' /\ fileContent' = blob)
                /\ update_phase' = (k + 1) % 8]_vars

\* the ninth tick has written phase 0 again
C8_Witness ==
    /\ tick.op = "sim" /\ tick.wrote = "ok"
    /\ simTicks = 9 /\ update_phase = 1
    /\ parse_json_value(fileContent, K_progress, 32).value = <<"0">>
    /\ parse_json_value(fileContent, K_step, 64).value = update_steps[1]

----------------------------------------------------------------------------
(* Properties of a malformed progress value *)

RECURSIVE AllDigits(_, _)
AllDigits(v, i) == i > Len(v) \/ (IsDigit(v[i]) /\ AllDigits(v, i + 1))

\* v is a decimal integer: digits, after an optional minus sign
IsDecimalInteger(v) ==
    IF Len(v) > 0 /\ v[1] = "-" THEN Len(v) > 1 /\ AllDigits(v, 2)
    ELSE Len(v) > 0 /\ AllDigits(v, 1)

\* the text has the progress key, and what follows its colon is no decimal integer
MalformedProgress(text) ==
    LET e == parse_json_value(text, K_progress, 32)
    IN  ~LacksKey(text, K_progress) /\ e.ok /\ ~IsDecimalInteger(e.value)

\* C9: after a successful read of a payload whose progress value is malformed, the
\* progress of current_status is the one it had before the tick.
C9_MalformedProgressKept ==
    [][(update_tracker_task /\ tick'.outcome = "parsed" /\ MalformedProgress(TickBuffer))
        => current_status'.progress = current_status.progress]_vars

----------------------------------------------------------------------------
(* The Field Extractor called on its own *)

\* every order of one, two or three different fields
Orders ==
    {o \in UNION {[1..n -> Keys] : n \in 1..3} :
        \A i, j \in DOMAIN o : i # j => o[i] # o[j]}

\* what stands between two fields, and between the colon and the value
Separators == {<<",">>, <<",", "\n", " ">>}

Spaces == {<<>>, <<" ">>, <<"\n", "\t">>}

Numbers == {<<"0">>, <<"4","2">>, <<"1","0","0">>}

StatusTexts == {<<"B","u","s","y">>, K_progress, K_step}

StepTexts == {<<"C","o","p","y">>, K_status}

\* 32 and 64 are the sizes check_update_status passes
MaxLens == {1, 2, 32, 64}

FieldText(key, ws, n, st, sp) ==
    <<"\"">> \o key \o <<"\"", ":">> \o ws
    \o (IF key = K_progress THEN n
        ELSE <<"\"">> \o (IF key = K_status THEN st ELSE sp) \o <<"\"">>)

RECURSIVE JoinFields(_, _, _, _, _, _, _)
JoinFields(order, i, sep, ws, n, st, sp) ==
    IF i > Len(order) THEN <<>>
    ELSE (IF i > 1 THEN sep ELSE <<>>) \o FieldText(order[i], ws, n, st, sp)
         \o JoinFields(order, i + 1, sep, ws, n, st, sp)

\* a payload of the status file's shape: { "key": value, ... }
PayloadText(order, sep, ws, n, st, sp) ==
    <<"{">> \o JoinFields(order, 1, sep, ws, n, st, sp) \o <<"}">>

\* one call parse_json_value(json, key, value, max_len) on a generated payload
call_parse_json_value ==
    /\ px.fn = "none"
    /\ \E order \in Orders, sep \in Separators, ws \in Spaces, n \in Numbers,
          st \in StatusTexts, sp \in StepTexts, key \in Keys, max_len \in MaxLens :
          LET json == PayloadText(order, sep, ws, n, st, sp)
              r    == parse_json_value(json, key, max_len)
          IN  px' = [fn |-> "parse_json_value", order |-> order, ws |-> ws, n |-> n,
                     st |-> st, sp |-> sp, json |-> json, key |-> key,
                     max_len |-> max_len, ok |-> r.ok, value |-> r.value]
    /\ UNCHANGED <<build, parentDirExists, shortWrites, started, fileExists, fileTime, fileContent, fileReadable,
                   canCreate, tmpDirExists, last_modified_time, update_timer,
                   current_status, last_log_time, now, update_phase, sim_timer, ui,
                   labels, tick, simTicks, hist>>

InitExtract == InitOf({"posix"})

NextExtract == call_parse_json_value

SpecExtract == InitExtract /\ [][NextExtract]_vars

\* the place of field `key` in the order, 0 when the payload has no such field
RECURSIVE FieldIndex(_, _, _)
FieldIndex(order, key, i) ==
    IF i > Len(order) THEN 0
    ELSE IF order[i] = key THEN i
    ELSE FieldIndex(order, key, i + 1)

\* the string value of the i-th field, <<>> for the number
StringValueAt(c, i) ==
    IF c.order[i] = K_status THEN c.st
    ELSE IF c.order[i] = K_step THEN c.sp
    ELSE <<>>

\* no field before field `key` has the key's name as its string value
NoEarlierValue(c, key) ==
    \A i \in 1..(FieldIndex(c.order, key, 1) - 1) : StringValueAt(c, i) # key

\* C10 as stated, at the max_len check_update_status passes (32): whenever the
\* payload has "progress": N, the extractor returns the digits of N, whatever the
\* field order, the white space and the other fields' values are.
C10_ProgressDigitsAlways ==
    (px.fn = "parse_json_value" /\ px.key = K_progress /\ px.max_len = 32
        /\ FieldIndex(px.order, K_progress, 1) # 0)
    => (px.ok /\ px.value = px.n)

\* C10, amended: whenever the payload has "progress": N, max_len is greater than the
\* number of digits of N, and no field before the progress field has the string value
\* progress, the extractor succeeds and returns exactly the digits of N, in any field
\* order and with any white space after the colon.
C10_ProgressDigits ==
    (px.fn = "parse_json_value" /\ px.key = K_progress
        /\ FieldIndex(px.order, K_progress, 1) # 0
        /\ px.max_len > Len(px.n)
        /\ NoEarlierValue(px, K_progress))
    => (px.ok /\ px.value = px.n)

\* progress is the last of three fields, after a line feed and a tab
C10_Witness ==
    /\ px.fn = "parse_json_value" /\ px.key = K_progress
    /\ px.order = <<K_step, K_status, K_progress>>
    /\ px.ws = <<"\n", "\t">> /\ px.n = <<"1","0","0">> /\ px.max_len = 32
    /\ px.st = K_step /\ px.sp = K_status
    /\ px.ok /\ px.value = <<"1","0","0">>

\* C11 as stated, at the max_len check_update_status passes (64): whenever the
\* payload has "status": "text" with no quote in text, the extractor succeeds and
\* returns text, whatever the field order and the other fields' values are.
C11_StatusTextAlways ==
    (px.fn = "parse_json_value" /\ px.key = K_status /\ px.max_len = 64
        /\ FieldIndex(px.order, K_status, 1) # 0)
    => (px.ok /\ px.value = px.st)

\* C11, amended: whenever the payload has "status": "text" with no quote in text,
\* max_len is greater than the length of text, and no field before the status field
\* has the string value status, the extractor succeeds and returns exactly text, in
\* any field order and with any white space after the colon.
C11_StatusText ==
    (px.fn = "parse_json_value" /\ px.key = K_status
        /\ FieldIndex(px.order, K_status, 1) # 0
        /\ px.max_len > Len(px.st)
        /\ NoEarlierValue(px, K_status))
    => (px.ok /\ px.value = px.st)

\* status is the last of three fields and its text is the name of another key
C11_Witness ==
    /\ px.fn = "parse_json_value" /\ px.key = K_status
    /\ px.order = <<K_progress, K_step, K_status>>
    /\ px.ws = <<"\n", "\t">> /\ px.max_len = 64
    /\ px.st = K_progress /\ px.sp = <<"C","o","p","y">>
    /\ px.ok /\ px.value = K_progress

----------------------------------------------------------------------------
(* The presentation boundary: widget handles that may be absent *)

\* a progress that fits neither the bar's range nor the 8 bytes of percentage[]
W_large == <<"{","\"","p","r","o","g","r","e","s","s","\"",":"," ","1","2","3","4","5","6","7","8",","," ","\"","s","t","a","t","u","s","\"",":"," ","\"","B","u","s","y","\"","}">>

UiPayloads == {W_full, W_nostep, W_large, W_empty}

\* every widget, none, and every widget but one
UiHandleSets == {Widgets, {}} \cup {Widgets \ {w} : w \in Widgets}

AgentWriteUi == AgentWriteOf(UiPayloads)

InitUi == InitWith({"posix"}, UiHandleSets)

NextUi ==
    \/ custom_init
    \/ update_tracker_task
    \/ AgentWriteUi
    \/ AgentRemove

SpecUi == InitUi /\ [][NextUi]_vars

\* what widget w shows after the Status `status` went through lines 318-334
Rendered(w, status) ==
    IF w = "screen_status" THEN status.status
    ELSE IF w = "screen_step" THEN status.step
    ELSE IF w = "screen_progress" THEN Prefix(IntToStr(status.progress) \o <<"%">>, 7)
    ELSE BarValue(status.progress)

Shown(w, l) ==
    IF w = "screen_status" THEN l.status
    ELSE IF w = "screen_step" THEN l.step
    ELSE IF w = "screen_progress" THEN l.progress
    ELSE l.bar

\* C12: a poll tick hands a Status to the widget updates exactly when it replaces
\* current_status, and that Status is the newly stored one; a tick that ends on file
\* absent, timestamp unchanged or read failure hands over nothing and leaves every
\* widget as it was; after a replacement every widget whose handle is non-NULL shows
\* the stored status text, step text and progress (as "<progress>%" within the 8 bytes
\* of its buffer, and as the bar's value within the bar's range), and a widget whose
\* handle is NULL keeps what it showed while the others are still written.
C12_EmitIffStored ==
    [][update_tracker_task =>
        /\ tick'.outcome \in {"absent", "unchanged", "readfail", "parsed"}
        /\ (tick'.emitted # <<>>) <=> (tick'.stores = 1)
        /\ tick'.stores = 1 => tick'.emitted = <<current_status'>>
        /\ tick'.outcome \in {"absent", "unchanged", "readfail"}
              => (tick'.emitted = <<>> /\ tick'.emits = {} /\ labels' = labels)
        /\ tick'.outcome = "parsed" =>
              /\ tick'.stores = 1 /\ tick'.emits = ui
              /\ \A w \in Widgets :
                    Shown(w, labels') = IF w \in ui THEN Rendered(w, current_status')
                                        ELSE Shown(w, labels)]_vars

\* a poll tick has stored a Status while the step widget is absent: the step label
\* keeps its initial text, the other three widgets show the stored Status
C12_Witness ==
    /\ tick.op = "poll" /\ tick.outcome = "parsed"
    /\ ui = Widgets \ {"screen_step"}
    /\ current_status.progress = 12345678
    /\ tick.emitted = <<current_status>>
    /\ labels.step = T_Initializing
    /\ labels.status = <<"B","u","s","y">>
    /\ labels.progress = <<"1","2","3","4","5","6","7">>
    /\ labels.bar = 100

----------------------------------------------------------------------------
(* Properties of the runtime control surface *)

\* the program's state and the status file, without the poll timer
AllButTimer ==
    <<build, started, fileExists, fileTime, fileContent, fileReadable, canCreate,
      parentDirExists, shortWrites, tmpDirExists, last_modified_time, current_status,
      last_log_time, update_phase, sim_timer, ui, labels>>

\* C13: the poll timer exists exactly when custom_init has run; a call of
\* set_update_polling_interval without a timer changes nothing; a call with a timer
\* sets the timer's period to the interval passed and changes nothing else, so
\* current_status and last_modified_time stay as they are.
C13_IntervalOnlyWhenStarted ==
    /\ [](started <=> update_timer # NULL)
    /\ [][set_update_polling_interval =>
            /\ UNCHANGED AllButTimer
            /\ update_timer = NULL => update_timer' = NULL
            /\ update_timer # NULL => (\E ms \in Intervals : update_timer' = Timer(ms))
            /\ current_status' = current_status
            /\ last_modified_time' = last_modified_time]_vars

\* the interval has been set after the watcher had read a status
C13_Witness ==
    /\ tick.op = "setint" /\ started
    /\ update_timer = Timer(500) /\ update_timer # Timer(DEFAULT_UPDATE_INTERVAL)
    /\ current_status # DefaultStatus /\ last_modified_time # 0

----------------------------------------------------------------------------
(* The File Access Adapter called on its own *)

\* the status file before the call: absent, or present with one of these contents
OldContents == {W_empty, W_nostep, W_full}

WriteContents == {default_json, W_nostep, W_empty}

\* the sizes passed as max_size; check_update_status passes JSON_BUFFER_SIZE
ReadSizes == {1, 8, JSON_BUFFER_SIZE}

\* any build, any state of the status file and of its directory; in the simulator
\* build the file lives in the working directory, which exists
InitFile ==
    /\ build \in {"zephyr", "posix", "sim"}
    /\ started = FALSE
    /\ \/ /\ fileExists = FALSE /\ fileTime = 0 /\ fileContent = <<>>
          /\ fileReadable = FALSE
          /\ parentDirExists \in (IF build = "sim" THEN {TRUE} ELSE BOOLEAN)
       \/ /\ fileExists = TRUE /\ fileTime = 1 /\ fileContent \in OldContents
          /\ fileReadable \in BOOLEAN
          /\ parentDirExists = TRUE
    /\ canCreate \in BOOLEAN
    /\ shortWrites = TRUE
    /\ tmpDirExists = FALSE
    /\ last_modified_time = 0
    /\ update_timer = NULL
    /\ current_status = DefaultStatus
    /\ last_log_time = 0
    /\ now = StartClock(build)
    /\ update_phase = 0
    /\ sim_timer = FALSE
    /\ ui = Widgets
    /\ labels = InitialLabels
    /\ tick = NoTick
    /\ simTicks = 0
    /\ hist = NoHist
    /\ px = NoCall

\* one call write_file_contents(UPDATE_JSON_PATH, content)
call_write_file_contents ==
    /\ px.fn = "none"
    /\ \E content \in WriteContents, t \in 1..MaxTime :
          \E n \in WriteLens(content) :
             LET w == write_file_contents(File, content, n, t)
             IN  /\ SetFile(w.file)
                 /\ tmpDirExists' = w.tmpdir
                 /\ px' = [fn |-> "write_file_contents", content |-> content, n |-> n,
                            before |-> File, couldOpen |-> CanOpenForWrite,
                            ret |-> w.ret, opens |-> w.opens, opened |-> w.opened]
    /\ UNCHANGED <<build, parentDirExists, shortWrites, started, canCreate, last_modified_time,
                   update_timer, current_status, last_log_time, now, update_phase,
                   sim_timer, ui, labels, tick, simTicks, hist>>

\* one call read_file_contents(UPDATE_JSON_PATH, buffer, max_size)
call_read_file_contents ==
    /\ px.fn = "none"
    /\ \E max_size \in ReadSizes :
          LET r == read_file_contents(File, max_size)
          IN  px' = [fn |-> "read_file_contents", max_size |-> max_size,
                     ok |-> r.ok, buffer |-> r.buffer]
    /\ UNCHANGED <<build, parentDirExists, shortWrites, started, fileExists, fileTime, fileContent,
                   fileReadable, canCreate, tmpDirExists, last_modified_time,
                   update_timer, current_status, last_log_time, now, update_phase,
                   sim_timer, ui, labels, tick, simTicks, hist>>

NextFile ==
    \/ call_write_file_contents
    \/ call_read_file_contents

SpecFile == InitFile /\ [][NextFile]_vars

\* C14, for a file system that accepts every byte handed to it: after
\* write_file_contents, (a) when the first attempt to create the file failed, the
\* directory that holds the file exists and a second attempt was made, (b) a return of
\* false means that two attempts were made and both failed, and (c) a return of true
\* means that the file holds exactly the content passed.
C14_WriteContract ==
    (px.fn = "write_file_contents" /\ px.n = Len(px.content)) =>
        /\ ~px.couldOpen => (parentDirExists /\ px.opens = 2)
        /\ ~px.ret => (px.opens = 2 /\ ~px.opened)
        /\ px.ret => (fileExists /\ fileContent = px.content)

\* C15, at the max_size check_update_status passes: read_file_contents returns true
\* exactly when the file can be opened, whatever its size, and then the buffer holds
\* the first min(file size, max_size - 1) bytes.
C15_ReadContract ==
    (px.fn = "read_file_contents" /\ px.max_size = JSON_BUFFER_SIZE) =>
        /\ px.ok <=> (fileExists /\ fileReadable)
        /\ px.ok => px.buffer = SubSeq(fileContent, 1, Min(Len(fileContent), px.max_size - 1))

----------------------------------------------------------------------------
(* The watcher keeps polling *)

\* the Linux build with the update agent; the poll timer is periodic, so its callback
\* runs again and again
InitLive == InitOf({"posix"})

NextLive ==
    \/ custom_init
    \/ update_tracker_task
    \/ AgentWriteUi
    \/ AgentRemove

\* the file shows a timestamp that a run of check_update_status would record
PollDue == update_timer # NULL /\ fileExists /\ FileChanged(fileTime, last_modified_time)

\* the timer keeps expiring: a poll tick cannot stay due for ever without one being
\* run.  A tick that is due changes last_modified_time, so this is what weak fairness
\* of update_tracker_task gives in the states where a tick is due.
PollFairness == []<>(~PollDue) \/ []<><<update_tracker_task>>_vars

SpecLive == InitLive /\ [][NextLive]_vars /\ PollFairness

\* the outcome of a run of check_update_status that starts in this state
ExpectedOutcome ==
    IF TickFileTime = 0 THEN "absent"
    ELSE IF TickFileTime = last_modified_time THEN "unchanged"
    ELSE IF read_file_contents(File, JSON_BUFFER_SIZE).ok THEN "parsed"
    ELSE "readfail"

\* C16: a poll tick ends in one of its four outcomes, the one that the timestamp it
\* finds in this tick selects, and leaves the poll timer in place whatever the
\* outcome; once the watcher is started the timer that update_tracker_task needs is
\* always there; and a file that shows another timestamp than the recorded one is
\* polled again: it vanishes or its timestamp gets recorded.
C16_WatcherKeepsPolling ==
    /\ [][update_tracker_task =>
            /\ tick'.outcome = ExpectedOutcome
            /\ tick'.outcome \in {"absent", "unchanged", "readfail", "parsed"}
            /\ update_timer' = update_timer /\ update_timer' # NULL]_vars
    /\ [](started => update_timer # NULL)
    /\ (started /\ fileExists /\ fileTime # last_modified_time)
          ~> (~fileExists \/ last_modified_time = fileTime)

\* a poll tick has ended on a read failure, and the timer is still there
C16_Witness ==
    /\ tick.op = "poll" /\ tick.outcome = "readfail"
    /\ started /\ update_timer = Timer(DEFAULT_UPDATE_INTERVAL)
    /\ fileExists /\ last_modified_time = fileTime
    /\ current_status # DefaultStatus

----------------------------------------------------------------------------
(* Bootstrap with the file in place *)

\* C17: when the status file shows a non-zero timestamp as custom_init starts, the
\* bootstrap writes nothing: the file's content, timestamp and access stay as they
\* are and no directory is made, whether or not a write would have gone through.
C17_BootstrapKeepsFile ==
    [][(custom_init /\ TickFileTime # 0) =>
        /\ tick'.wrote = "none"
        /\ fileExists' /\ fileContent' = fileContent /\ fileTime' = fileTime
        /\ fileReadable' = fileReadable
        /\ tmpDirExists' = tmpDirExists]_vars

\* custom_init has run on a file of the agent that it could have written over
C17_Witness ==
    /\ tick.op = "init" /\ tick.wrote = "none"
    /\ canCreate /\ parentDirExists
    /\ fileExists /\ fileContent = W_full /\ fileTime = MaxTime
    /\ current_status.progress = 42

----------------------------------------------------------------------------
(* The waiting message and the clock *)

\* what the clock may move by between two runs: k_uptime_get counts ms and only
\* grows; time(NULL) * 1000 moves in whole seconds and can be set back
ClockSteps(b) == IF b = "zephyr" THEN {500, 1000, 10000} ELSE {1000, 10000, 0 - 1000}

ClockAdvance ==
    /\ \E d \in ClockSteps(build) :
          /\ now + d >= StartClock(build)
          /\ now + d <= StartClock(build) + MaxClock
          /\ now' = now + d
    /\ tick' = NoTick
    /\ UNCHANGED <<build, parentDirExists, shortWrites, started, fileExists, fileTime, fileContent,
                   fileReadable, canCreate, tmpDirExists, last_modified_time,
                   update_timer, current_status, last_log_time, update_phase,
                   sim_timer, ui, labels, simTicks, hist, px>>

InitClock == InitOf({"zephyr", "posix"})

NextClock ==
    \/ custom_init
    \/ update_tracker_task
    \/ AgentRemove
    \/ ClockAdvance

SpecClock == InitClock /\ [][NextClock]_vars

\* C18: the clock readings of any two consecutive waiting messages differ by more
\* than 10 000 ms, whatever happens between them and however often the file is
\* polled; a tick prints the message only when it finds no file, and when it does the
\* message before it, if any, lies more than 10 000 ms back.
C18_WaitingLogRateLimited ==
    /\ [](\A i \in 1..(Len(hist.logs) - 1) : hist.logs[i + 1] - hist.logs[i] > 10000)
    /\ [][(update_tracker_task /\ tick'.waitLog) =>
            /\ tick'.outcome = "absent"
            /\ hist'.logs = Append(hist.logs, now)
            /\ Len(hist.logs) > 0 => now - hist.logs[Len(hist.logs)] > 10000]_vars
    /\ [][(update_tracker_task /\ ~tick'.waitLog) => hist'.logs = hist.logs]_vars

\* the second waiting message has just been printed by a poll tick, after ticks that
\* printed none
C18_Witness ==
    /\ tick.op = "poll" /\ tick.outcome = "absent" /\ tick.waitLog
    /\ build = "zephyr"
    /\ hist.logs = <<10500, 21000>>
    /\ last_log_time = now /\ now = 21000

----------------------------------------------------------------------------
(* Truncation in the Field Extractor *)

\* the text of field `key` as the payload was put together
FieldValue(c, key) ==
    IF key = K_progress THEN c.n ELSE IF key = K_status THEN c.st ELSE c.sp

\* what the extractor finds for the call when the destination is larger than the text
Untruncated(c) == parse_json_value(c.json, c.key, Len(c.json) + 1).value

\* C19: for max_len >= 1, a successful extraction leaves in the destination the first
\* min(L, max_len - 1) characters of the value of length L that the scan found, and
\* with the terminator at most max_len bytes are written; when the scan starts at the
\* field itself, that value is the field's text, a string or a bare token.
C19_TruncatedCopy ==
    (px.fn = "parse_json_value" /\ px.max_len >= 1 /\ px.ok) =>
        /\ Len(px.value) + 1 <= px.max_len
        /\ px.value = SubSeq(Untruncated(px), 1,
                             Min(Len(Untruncated(px)), px.max_len - 1))
        /\ (FieldIndex(px.order, px.key, 1) # 0 /\ NoEarlierValue(px, px.key))
              => /\ Untruncated(px) = FieldValue(px, px.key)
                 /\ px.value = SubSeq(FieldValue(px, px.key), 1,
                                      Min(Len(FieldValue(px, px.key)), px.max_len - 1))

\* the bare token 100 went into a destination of two bytes
C19_Witness ==
    /\ px.fn = "parse_json_value" /\ px.key = K_progress /\ px.max_len = 2
    /\ px.order = <<K_status, K_progress>> /\ px.n = <<"1","0","0">>
    /\ px.ok /\ px.value = <<"1">>

----------------------------------------------------------------------------
(* The Simulator Generator's frame *)

\* the simulator started in a working directory that still holds the status file of
\* an earlier run, which the process may or may not be allowed to write
InitSimRestart ==
    /\ build = "sim"
    /\ started = FALSE
    /\ fileExists = TRUE /\ fileTime = 1 /\ fileContent = SimulatorJson(3)
    /\ fileReadable = TRUE
    /\ canCreate \in BOOLEAN
    /\ parentDirExists = TRUE
    /\ shortWrites = TRUE
    /\ tmpDirExists = FALSE
    /\ last_modified_time = 0
    /\ update_timer = NULL
    /\ current_status = DefaultStatus
    /\ last_log_time = 0
    /\ now = StartClock(build)
    /\ update_phase = 0
    /\ sim_timer = FALSE
    /\ ui = Widgets
    /\ labels = InitialLabels
    /\ tick = NoTick
    /\ simTicks = 0
    /\ hist = NoHist
    /\ px = NoCall

SpecSimRestart == InitSimRestart /\ [][NextSim]_vars

\* what a simulator tick leaves alone in any case: the watcher's state and the widgets
WatcherState ==
    <<build, started, last_modified_time, update_timer, current_status, last_log_time,
      sim_timer, ui, labels, canCreate, parentDirExists>>

----------------------------------------------------------------------------
(* Convergence of the Status Store on the file's final content *)

\* the store holds, for each field that check_update_status finds in content c, the
\* value it extracts from c
StoreHolds(c) ==
    \A key \in Keys :
        LET e == parse_json_value(Prefix(c, JSON_BUFFER_SIZE - 1), key, FieldSize(key))
        IN  e.ok => FieldTaken(key, e.value, current_status)

\* what check_update_status extracts from each content the agent may leave
Extracted ==
    [c \in UiPayloads |->
        [key \in Keys |->
            parse_json_value(Prefix(c, JSON_BUFFER_SIZE - 1), key, FieldSize(key))]]

\* StoreHolds for a content of the agent
StoreHoldsFinal(c) ==
    \A key \in Keys : Extracted[c][key].ok => FieldTaken(key, Extracted[c][key].value, current_status)

\* the status file is there with content c and timestamp t
FileIs(c, t) == fileExists /\ fileContent = c /\ fileTime = t

----------------------------------------------------------------------------
(* Whole records in simulator mode *)

\* the simulator started with no status file or with the one the bootstrap of an
\* earlier run left, on a medium that may or may not cut writes short
InitSimWhole ==
    /\ build = "sim"
    /\ started = FALSE
    /\ \/ fileExists = FALSE /\ fileTime = 0 /\ fileContent = <<>> /\ fileReadable = FALSE
       \/ fileExists = TRUE /\ fileTime = 1 /\ fileContent = default_json
                            /\ fileReadable = TRUE
    /\ canCreate \in BOOLEAN
    /\ parentDirExists = TRUE
    /\ shortWrites \in BOOLEAN
    /\ tmpDirExists = FALSE
    /\ last_modified_time = 0
    /\ update_timer = NULL
    /\ current_status = DefaultStatus
    /\ last_log_time = 0
    /\ now = StartClock(build)
    /\ update_phase = 0
    /\ sim_timer = FALSE
    /\ ui = Widgets
    /\ labels = InitialLabels
    /\ tick = NoTick
    /\ simTicks = 0
    /\ hist = NoHist
    /\ px = NoCall

SpecSimWhole == InitSimWhole /\ [][NextSim]_vars

\* the Status that the simulator's write of phase k describes
PhaseRecord(k) ==
    [progress |-> (k * 100) \div 8, status |-> T_SystemUpdating, step |-> update_steps[k + 1]]

\* the store holds one whole written record: the default Status, or the record of one
\* phase k
WholeRecord ==
    \/ current_status = DefaultStatus
    \/ \E k \in 0..(num_phases - 1) : current_status = PhaseRecord(k)

----------------------------------------------------------------------------
(* What last_modified_time records *)

\* C23 as stated: last_modified_time is never the timestamp of a file state whose
\* read failed, and it changes only in a run of check_update_status that ends with
\* the content parsed and stored.
C23_UpdatedOnlyOnSuccess ==
    /\ [](last_modified_time # 0 => hist.failedAt # last_modified_time)
    /\ [][last_modified_time' # last_modified_time => tick'.outcome = "parsed"]_vars

\* C23, for the timestamp last seen to differ: last_modified_time is 0 until
\* custom_init has run; it changes exactly in the runs of check_update_status that
\* find the file present with another timestamp than the recorded one, whether the
\* read that follows succeeds or fails, and then becomes the timestamp found; and
\* after a failed read it stays the timestamp of the file state that could not be
\* read until the file shows another one.
C23_TimeLastSeenToDiffer ==
    /\ [](last_modified_time # 0 => started)
    /\ [](hist.failedAt # 0 => last_modified_time = hist.failedAt)
    /\ [][last_modified_time' # last_modified_time =>
            /\ tick'.op \in {"init", "poll"}
            /\ tick'.outcome \in {"parsed", "readfail"}
            /\ fileExists' /\ last_modified_time' = fileTime']_vars
    /\ [][(tick'.op \in {"init", "poll"} /\ tick'.outcome \in {"parsed", "readfail"}) =>
            /\ fileTime' # last_modified_time
            /\ last_modified_time' = fileTime']_vars
    /\ [][(update_tracker_task /\ tick'.outcome \in {"absent", "unchanged"}) =>
            last_modified_time' = last_modified_time]_vars

\* a poll tick has recorded the timestamp of a file it could not read, after a file
\* state with another timestamp had been read
C23_Witness ==
    /\ tick.op = "poll" /\ tick.outcome = "readfail" /\ tick.reads = 1
    /\ fileExists /\ fileContent = W_empty /\ fileTime = MaxTime
    /\ last_modified_time = MaxTime /\ hist.failedAt = MaxTime
    /\ hist.lastGood = W_full
    /\ current_status.progress = 42

====
